---- MODULE Spec2Model ----
(***************************************************************************)
(* A model of tvm-build: the revision lifecycle (BuildConfig::get_revision, *)
(* Revision::build_for), the crate-root build of lib.rs, the option        *)
(* projection (BuildConfig::as_cmake_define_key_values), the tri-state     *)
(* parser (CMakeSetting::from_str) and the target resolver (local_target). *)
(*                                                                         *)
(* Conventions.  Option<T> is a sequence: <<>> is None, <<x>> is Some(x).  *)
(* A filesystem path is the sequence of its components.  A text whose      *)
(* characters matter (option values, parser input) is a sequence of        *)
(* one-character strings; keys and names that are only compared are plain  *)
(* strings.  A Result is a record with a status field: "Ok", "Err" or      *)
(* "Panic".  What the version-control client, the operating system and the *)
(* external build tool answer is an oracle record chosen by the            *)
(* environment.                                                            *)
(***************************************************************************)
EXTENDS Integers, Sequences, FiniteSets, TLC

VARIABLES
    fs,        \* the filesystem: [dirs: set of paths, repos: path -> checkout]
    last,      \* the last call of the lifecycle API: op, arguments, result, events
    settings,  \* the UserSettings being filled by the argument parser
    defines,   \* Option of the last projection of settings
    input,     \* Option of the last text given to CMakeSetting::from_str
    parsed,    \* Option of the last result of CMakeSetting::from_str
    platform,  \* Option of the platform facts read by local_target
    target     \* Option of the last result of local_target

vars == <<fs, last, settings, defines, input, parsed, platform, target>>

----------------------------------------------------------------------------
(* Bounds of the model.                                                    *)

\* the most submodules a checkout declares
MaxSubmodules == 1
\* the most options one command line sets
MaxSet == 2
\* the longest text given to the tri-state parser
MaxLen == 3

----------------------------------------------------------------------------
(* Options, results and errors.                                            *)

None == <<>>
Some(x) == <<x>>
is_none(o) == o = <<>>
is_some(o) == o # <<>>
unwrap_or(o, d) == IF o = <<>> THEN d ELSE o[1]

Ok(v) == [status |-> "Ok", value |-> v]
Err(e) == [status |-> "Err", error |-> e]
Panic(m) == [status |-> "Panic", message |-> m]
Unit == "()"

\* core.rs, enum Error
Git2(e) == [variant |-> "Git2", source |-> e]
IoError(e) == [variant |-> "IoError", source |-> e]
RevisionNotFound(revision, repository) ==
    [variant |-> "RevisionNotFound", revision |-> revision, repository |-> repository]

\* git2::Error as the client hands it over: its code is all the program reads
GitError(code) == [code |-> code]
GitErrorCodes == {"NotFound", "GenericError", "Exists"}

TVM_REPO == "https://github.com/apache/tvm"
DEFAULT_BRANCH == "main"

----------------------------------------------------------------------------
(* The filesystem.                                                         *)

Join(p, c) == Append(p, c)
IsPrefix(p, q) == Len(p) <= Len(q) /\ SubSeq(q, 1, Len(p)) = p
Ancestors(p) == {SubSeq(p, 1, k) : k \in 1..Len(p)}

EmptyFs == [dirs |-> {}, repos |-> <<>>]

\* Path::exists
exists(f, p) == p \in f.dirs

\* a directory with nothing in it: no checkout and no directory below it
IsEmptyDir(f, p) == p \notin DOMAIN f.repos /\ \A q \in f.dirs : IsPrefix(p, q) => q = p

Restrict(g, S) == [x \in S |-> g[x]]

\* WithoutTree taking the source directory of p alone
WithoutTree_SourceOnly(f, p) ==
    [dirs |-> {q \in f.dirs : ~IsPrefix(Append(p, "source"), q)},
     repos |-> [x \in {q \in DOMAIN f.repos : ~IsPrefix(Append(p, "source"), q)}
                   |-> f.repos[x]]]

\* what is left of f once the tree at p is gone
WithoutTree(f, p) ==
    [dirs |-> {q \in f.dirs : ~IsPrefix(p, q)},
     repos |-> Restrict(f.repos, {q \in DOMAIN f.repos : ~IsPrefix(p, q)})]

\* what is left of f once everything strictly below p is gone
WithoutChildren(f, p) ==
    [dirs |-> {q \in f.dirs : ~IsPrefix(p, q) \/ q = p},
     repos |-> Restrict(f.repos, {q \in DOMAIN f.repos : ~IsPrefix(p, q)})]

\* std::fs::remove_dir_all: a path that does not exist is an error; the answer
\* "ok" removes the tree; a failure leaves the tree whole ("err") or emptied
\* in part ("err_partial")
remove_dir_all(f, p, answer) ==
    CASE ~exists(f, p) -> [fs |-> f, err |-> Some("NotFound")]
      [] answer = "ok" -> [fs |-> WithoutTree(f, p), err |-> None]
      [] answer = "err" -> [fs |-> f, err |-> Some("Other")]
      [] OTHER -> [fs |-> WithoutChildren(f, p), err |-> Some("Other")]

\* std::fs::create_dir_all
create_dir_all(f, p, answer) ==
    IF answer = "ok"
    THEN [fs |-> [f EXCEPT !.dirs = @ \cup Ancestors(p)], err |-> None]
    ELSE [fs |-> f, err |-> Some("Other")]

\* a checkout as the client leaves it: where it came from, the submodules it
\* declares and how many of them have been updated so far
Checkout(url, branch, declared) ==
    [url |-> url, branch |-> branch, declared |-> declared, updated |-> 0]

WithRepo(f, p, c) ==
    [dirs |-> f.dirs \cup Ancestors(p),
     repos |-> [x \in DOMAIN f.repos \cup {p} |-> IF x = p THEN c ELSE f.repos[x]]]

\* RepoBuilder::clone(url, into): a destination that exists and is not empty
\* is refused with Exists; otherwise the remote's answer decides.  A failed
\* clone leaves no destination behind.
clone(f, url, branch, into, o) ==
    IF exists(f, into) /\ ~IsEmptyDir(f, into)
    THEN [fs |-> f, err |-> Some(GitError("Exists"))]
    ELSE IF o.clone = "ok"
    THEN [fs |-> WithRepo(f, into, Checkout(url, branch, o.declared)), err |-> None]
    ELSE [fs |-> f, err |-> Some(GitError(o.clone))]

\* Submodule::update(true, None) on the checkout at p, for submodule i
submodule_update(f, p, i) == [f EXCEPT !.repos[p].updated = i]

----------------------------------------------------------------------------
(* Revision (core.rs).                                                     *)

\* tvm_build_directory(): home_dir().join(".tvm_build")
tvm_build_directory == <<"~", ".tvm_build">>

Revision_new(revision) == [revision |-> revision]

\* path without the name of the revision
path_Shared(rev) == tvm_build_directory

\* Revision::path
path(rev) == Join(tvm_build_directory, rev.revision)

\* Revision::source_path
source_path(rev) == Join(path(rev), "source")

\* Revision::build_path
build_path(rev) == Join(path(rev), "build")

----------------------------------------------------------------------------
(* BuildConfig::get_revision (core.rs).  The value is the filesystem the   *)
(* call leaves, its result and the side effects it had, in order.          *)

Outcome(f, result, events) == [fs |-> f, result |-> result, events |-> events]

\* the loop over the submodules of the checkout at p: submodule i is updated
\* unless the client fails there
RECURSIVE UpdateSubmodules(_, _, _, _, _)
UpdateSubmodules(f, p, i, o, events) ==
    IF i > f.repos[p].declared
    THEN [fs |-> f, err |-> None, events |-> events]
    ELSE IF o.failAt = i
    THEN [fs |-> f, err |-> Some(GitError("GenericError")),
          events |-> Append(events, [ev |-> "update", index |-> i, ok |-> FALSE])]
    ELSE UpdateSubmodules(submodule_update(f, p, i), p, i + 1, o,
                          Append(events, [ev |-> "update", index |-> i, ok |-> TRUE]))

\* the error get_revision returns for a failed clone
CloneError(e, repository_url, rev) ==
    IF e.code = "NotFound"
    THEN RevisionNotFound(rev.revision, repository_url)
    ELSE Git2(e)

\* the directory get_revision treats as the revision's root
RevisionPath(cfg, rev) ==
    IF is_some(cfg.repository_path) THEN cfg.repository_path[1] ELSE path(rev)

\* ShouldClean without the test that nobody else owns the directory
ShouldClean_IgnoringOwner(cfg, f, revision_path) ==
    exists(f, revision_path) /\ cfg.clean

\* the guard of the recursive removal
ShouldClean(cfg, f, revision_path) ==
    exists(f, revision_path) /\ cfg.clean /\ is_none(cfg.repository_path)

\* ShouldClone without the test that the source is already there
ShouldClone_Always(f, rev) == TRUE

\* the guard of the clone
ShouldClone(f, rev) == ~exists(f, source_path(rev))

\* the clone and what follows it, on the filesystem f the removal left
Acquire(cfg, f, o, repository_url, rev, revision_path, events) ==
    LET repo_path == Join(revision_path, "source")
        cl == clone(f, repository_url, rev.revision, repo_path, o)
        ev1 == Append(events, [ev |-> "clone", url |-> repository_url,
                               branch |-> rev.revision, into |-> repo_path,
                               code |-> IF is_none(cl.err) THEN "Ok" ELSE cl.err[1].code,
                               ok |-> is_none(cl.err)])
    IN  IF is_some(cl.err)
        THEN Outcome(cl.fs, Err(CloneError(cl.err[1], repository_url, rev)), ev1)
        ELSE LET ev2 == Append(ev1, [ev |-> "submodules", ok |-> o.list = "ok"])
             IN  IF o.list # "ok"
                 THEN Outcome(cl.fs, Err(Git2(GitError("GenericError"))), ev2)
                 ELSE LET up == UpdateSubmodules(cl.fs, repo_path, 1, o, ev2)
                      IN  IF is_some(up.err)
                          THEN Outcome(up.fs, Err(Git2(up.err[1])), up.events)
                          ELSE Outcome(up.fs, Ok(rev), up.events)

get_revision(cfg, f, o) ==
    LET repository_url == unwrap_or(cfg.repository, TVM_REPO)
        branch == unwrap_or(cfg.branch, DEFAULT_BRANCH)
        revision == Revision_new(branch)
        revision_path == RevisionPath(cfg, revision)
        cleaning == ShouldClean(cfg, f, revision_path)
        rm == IF cleaning
              THEN remove_dir_all(f, revision_path, o.rm)
              ELSE [fs |-> f, err |-> None]
        ev0 == IF cleaning
               THEN <<[ev |-> "remove_dir_all", path |-> revision_path,
                       ok |-> is_none(rm.err)]>>
               ELSE <<>>
    IN  IF is_some(rm.err)
        THEN Outcome(rm.fs, Err(IoError(rm.err[1])), ev0)
        ELSE IF ShouldClone(rm.fs, revision)
        THEN Acquire(cfg, rm.fs, o, repository_url, revision, revision_path, ev0)
        ELSE Outcome(rm.fs, Ok(revision), ev0)

----------------------------------------------------------------------------
(* Texts.                                                                  *)

AsciiUppercase == <<"A", "B", "C", "D", "E", "F", "G", "H", "I", "J", "K", "L", "M",
                    "N", "O", "P", "Q", "R", "S", "T", "U", "V", "W", "X", "Y", "Z">>
AsciiLowercase == <<"a", "b", "c", "d", "e", "f", "g", "h", "i", "j", "k", "l", "m",
                    "n", "o", "p", "q", "r", "s", "t", "u", "v", "w", "x", "y", "z">>

\* u8::to_ascii_lowercase on one character
char_to_ascii_lowercase(c) ==
    IF \E i \in 1..26 : AsciiUppercase[i] = c
    THEN AsciiLowercase[CHOOSE i \in 1..26 : AsciiUppercase[i] = c]
    ELSE c

\* to_ascii_lowercase leaving the text as it is
to_ascii_lowercase_Unchanged(s) == s

\* str::to_ascii_lowercase
to_ascii_lowercase(s) == [i \in 1..Len(s) |-> char_to_ascii_lowercase(s[i])]

\* a unit of an OS string that is no valid UTF-8, and what Display puts for it
InvalidUnit == "\\xFF"
ReplacementCharacter == "U+FFFD"

\* Path::display: the path's text, lossily decoded
display(os) ==
    [i \in 1..Len(os) |-> IF os[i] = InvalidUnit THEN ReplacementCharacter ELSE os[i]]

----------------------------------------------------------------------------
(* CMakeSetting and the values of the options (core.rs).                   *)

Bool(b) == [type |-> "bool", value |-> b]
String(s) == [type |-> "String", chars |-> s]
PathBuf(os) == [type |-> "PathBuf", os |-> os]
CMakeSetting_On == [type |-> "CMakeSetting", tag |-> "On"]
CMakeSetting_Off == [type |-> "CMakeSetting", tag |-> "Off"]
CMakeSetting_Path(p) == [type |-> "CMakeSetting", tag |-> "Path", path |-> p]

\* PathBuf::from_str, which cannot fail
PathBuf_from_str(s) == PathBuf(s)

\* impl FromStr for CMakeSetting; Err is Infallible, every arm is Ok
CMakeSetting_from_str(s) ==
    LET l == to_ascii_lowercase(s)
    IN  CASE l = <<"o", "n">> -> Ok(CMakeSetting_On)
          [] l = <<"o", "f", "f">> -> Ok(CMakeSetting_Off)
          [] OTHER -> Ok(CMakeSetting_Path(PathBuf_from_str(s)))

\* the switch spelled as Rust prints a bool
bool_as_string_value_Display(v) ==
    IF v.value THEN <<"t", "r", "u", "e">> ELSE <<"f", "a", "l", "s", "e">>

\* impl CMakeSettingValue for &bool
bool_as_string_value(v) == IF v.value THEN <<"O", "N">> ELSE <<"O", "F", "F">>

\* impl CMakeSettingValue for &PathBuf
PathBuf_as_string_value(v) == display(v.os)

\* impl CMakeSettingValue for &String
String_as_string_value(v) == v.chars

\* impl CMakeSettingValue for &CMakeSetting
CMakeSetting_as_string_value(v) ==
    CASE v.tag = "On" -> <<"O", "N">>
      [] v.tag = "Off" -> <<"O", "F", "F">>
      [] v.tag = "Path" -> PathBuf_as_string_value(v.path)

\* CMakeSettingValue::as_string_value, by the type of the value
as_string_value(v) ==
    CASE v.type = "bool" -> bool_as_string_value(v)
      [] v.type = "PathBuf" -> PathBuf_as_string_value(v)
      [] v.type = "String" -> String_as_string_value(v)
      [] v.type = "CMakeSetting" -> CMakeSetting_as_string_value(v)

----------------------------------------------------------------------------
(* UserSettings and its projection (core.rs).                              *)

\* struct UserSettings: its fields and their types, in declaration order
UserSettings ==
    << [field |-> "use_cuda", type |-> "CMakeSetting"],
       [field |-> "use_opencl", type |-> "CMakeSetting"],
       [field |-> "use_vulkan", type |-> "CMakeSetting"],
       [field |-> "use_metal", type |-> "CMakeSetting"],
       [field |-> "use_rocm", type |-> "CMakeSetting"],
       [field |-> "rocm_path", type |-> "PathBuf"],
       [field |-> "use_hexagon_device", type |-> "bool"],
       [field |-> "use_heaxgon_dsk", type |-> "PathBuf"],
       [field |-> "use_rpc", type |-> "bool"],
       [field |-> "use_threads", type |-> "bool"],
       [field |-> "use_llvm", type |-> "CMakeSetting"],
       [field |-> "use_stackvm_runtime", type |-> "bool"],
       [field |-> "use_graph_runtime", type |-> "bool"],
       [field |-> "use_graph_runtime_debug", type |-> "bool"],
       [field |-> "use_openmp", type |-> "bool"],
       [field |-> "use_relay_debug", type |-> "bool"],
       [field |-> "use_rtti", type |-> "bool"],
       [field |-> "use_mscv_mt", type |-> "bool"],
       [field |-> "use_micro", type |-> "bool"],
       [field |-> "use_install_dev", type |-> "bool"],
       [field |-> "hide_private_symbols", type |-> "bool"],
       [field |-> "use_fallback_stl_map", type |-> "bool"],
       [field |-> "use_ethosn", type |-> "bool"],
       [field |-> "use_index_default_i64", type |-> "bool"],
       [field |-> "use_tf_tvmdsoop", type |-> "bool"],
       [field |-> "use_byodt_posit", type |-> "bool"],
       [field |-> "use_blas", type |-> "String"],
       [field |-> "use_mkl", type |-> "CMakeSetting"],
       [field |-> "use_mkldnn", type |-> "CMakeSetting"],
       [field |-> "use_dnnl_codegen", type |-> "bool"],
       [field |-> "use_cudnn", type |-> "bool"],
       [field |-> "use_cublas", type |-> "bool"],
       [field |-> "use_thrust", type |-> "bool"],
       [field |-> "use_miopen", type |-> "bool"],
       [field |-> "use_rocblas", type |-> "bool"],
       [field |-> "use_sort", type |-> "bool"],
       [field |-> "use_nnpack", type |-> "bool"],
       [field |-> "use_random", type |-> "bool"],
       [field |-> "use_micro_standalone_runtime", type |-> "bool"],
       [field |-> "use_cpp_rpc", type |-> "bool"],
       [field |-> "use_tflite", type |-> "bool"],
       [field |-> "use_tensorflow_path", type |-> "PathBuf"],
       [field |-> "use_coreml", type |-> "bool"],
       [field |-> "use_target_onnx", type |-> "bool"],
       [field |-> "use_arm_compute_lib", type |-> "bool"],
       [field |-> "use_arm_compute_lib_graph_runtime", type |-> "CMakeSetting"],
       [field |-> "use_tensorrt_codegen", type |-> "bool"],
       [field |-> "use_tensorrt_runtime", type |-> "CMakeSetting"],
       [field |-> "use_rust_ext", type |-> "String"],
       [field |-> "use_vitis_ai", type |-> "bool"],
       [field |-> "build_static_runtime", type |-> "bool"] >>

FieldNames == {UserSettings[i].field : i \in 1..Len(UserSettings)}
FieldIndex(f) == CHOOSE i \in 1..Len(UserSettings) : UserSettings[i].field = f
FieldType(f) == UserSettings[FieldIndex(f)].type

\* UserSettings::default(): every option unset
UserSettings_default == [f \in FieldNames |-> None]

\* the vector as_cmake_define_key_values builds: the field read and the key
\* given to setting_key_value, entry by entry
DefineEntries ==
    << [field |-> "use_cuda", key |-> "USE_CUDA"],
       [field |-> "use_opencl", key |-> "USE_OPENCL"],
       [field |-> "use_vulkan", key |-> "USE_VULKAN"],
       [field |-> "use_metal", key |-> "USE_METAL"],
       [field |-> "use_rocm", key |-> "USE_ROCM"],
       [field |-> "rocm_path", key |-> "ROCM_PATH"],
       [field |-> "use_hexagon_device", key |-> "USE_HEXAGON_DEVICE"],
       [field |-> "use_heaxgon_dsk", key |-> "USE_HEAXGON_DSK"],
       [field |-> "use_rpc", key |-> "USE_RPC"],
       [field |-> "use_threads", key |-> "USE_THREADS"],
       [field |-> "use_llvm", key |-> "USE_LLVM"],
       [field |-> "use_stackvm_runtime", key |-> "USE_STACKVM_RUNTIME"],
       [field |-> "use_graph_runtime", key |-> "USE_GRAPH_RUNTIME"],
       [field |-> "use_graph_runtime_debug", key |-> "USE_GRAPH_RUNTIME_DEBUG"],
       [field |-> "use_openmp", key |-> "USE_OPENMP"],
       [field |-> "use_relay_debug", key |-> "USE_RELAY_DEBUG"],
       [field |-> "use_rtti", key |-> "USE_RTTI"],
       [field |-> "use_mscv_mt", key |-> "USE_MSCV_MT"],
       [field |-> "use_micro", key |-> "USE_MICRO"],
       [field |-> "use_install_dev", key |-> "USE_INSTALL_DEV"],
       [field |-> "hide_private_symbols", key |-> "HIDE_PRIVATE_SYMBOLS"],
       [field |-> "use_fallback_stl_map", key |-> "USE_FALLBACK_STL_MAP"],
       [field |-> "use_ethosn", key |-> "USE_ETHOSN"],
       [field |-> "use_index_default_i64", key |-> "USE_INDEX_DEFAULT_I64"],
       [field |-> "use_tf_tvmdsoop", key |-> "USE_TF_TVMDSOOP"],
       [field |-> "use_byodt_posit", key |-> "USE_BYODT_POSIT"],
       [field |-> "use_blas", key |-> "USE_BLAS"],
       [field |-> "use_mkl", key |-> "USE_MKL"],
       [field |-> "use_mkldnn", key |-> "USE_MKLDNN"],
       [field |-> "use_dnnl_codegen", key |-> "USE_DNNL_CODEGEN"],
       [field |-> "use_cudnn", key |-> "USE_CUDNN"],
       [field |-> "use_cublas", key |-> "USE_CUBLAS"],
       [field |-> "use_thrust", key |-> "USE_THRUST"],
       [field |-> "use_miopen", key |-> "USE_MIOPEN"],
       [field |-> "use_rocblas", key |-> "USE_ROCBLAS"],
       [field |-> "use_sort", key |-> "USE_SORT"],
       [field |-> "use_nnpack", key |-> "USE_NNPACK"],
       [field |-> "use_random", key |-> "USE_RANDOM"],
       [field |-> "use_micro_standalone_runtime", key |-> "USE_MICRO_STANDALONE_RUNTIME"],
       [field |-> "use_cpp_rpc", key |-> "USE_CPP_RPC"],
       [field |-> "use_tflite", key |-> "USE_TFLITE"],
       [field |-> "use_tensorflow_path", key |-> "USE_TENSORFLOW_PATH"],
       [field |-> "use_coreml", key |-> "USE_COREML"],
       [field |-> "use_target_onnx", key |-> "USE_TARGET_ONNX"],
       [field |-> "use_arm_compute_lib", key |-> "USE_ARM_COMPUTE_LIB"],
       [field |-> "use_arm_compute_lib_graph_runtime", key |-> "USE_ARM_COMPUTE_LIB_GRAPH_RUNTIME"],
       [field |-> "use_tensorrt_codegen", key |-> "USE_TENSORRT_CODEGEN"],
       [field |-> "use_tensorrt_runtime", key |-> "USE_TENSORRT_RUNTIME"],
       [field |-> "use_rust_ext", key |-> "USE_RUST_EXT"],
       [field |-> "use_vitis_ai", key |-> "USE_VITIS_AI"],
       [field |-> "build_static_runtime", key |-> "BUILD_STATIC_RUNTIME"] >>


\* BuildConfig::setting_key_value
setting_key_value(k, value) == <<k, as_string_value(value)>>

\* Flatten yielding the entries last to first
RECURSIVE Flatten_Reversed(_, _)
Flatten_Reversed(v, i) ==
    IF i > Len(v) THEN <<>>
    ELSE IF is_none(v[i]) THEN Flatten_Reversed(v, i + 1)
    ELSE Flatten_Reversed(v, i + 1) \o <<v[i][1]>>

\* Iterator::flatten over the vector of Options, from entry i on
RECURSIVE Flatten(_, _)
Flatten(v, i) ==
    IF i > Len(v) THEN <<>>
    ELSE IF is_none(v[i]) THEN Flatten(v, i + 1)
    ELSE <<v[i][1]>> \o Flatten(v, i + 1)

\* BuildConfig::as_cmake_define_key_values
as_cmake_define_key_values(cfg) ==
    Flatten([i \in 1..Len(DefineEntries) |->
                IF is_some(cfg.settings[DefineEntries[i].field])
                THEN Some(setting_key_value(DefineEntries[i].key,
                                            cfg.settings[DefineEntries[i].field][1]))
                ELSE None], 1)

----------------------------------------------------------------------------
(* Target and local_target (targets/target.rs, targets/mod.rs).            *)

Target(host, target_str, cmake_defines) ==
    [host |-> host, target_str |-> target_str, cmake_defines |-> cmake_defines]

\* the variants of heim::host::Arch
Arch == {"AARCH64", "ARM", "ASMJS", "MIPS", "MIPS64", "MSP430", "NVPTX64",
         "POWERPC", "POWERPC64", "RISCV", "S390X", "SPARC", "SPARC64",
         "WASM32", "X86", "X86_64", "Unknown"}

Backtick == "(backtick)"

\* the panic of an unknown operating system without its name
UnsupportedMessage_Unnamed(system) == <<"not supported">>

\* the message of the panic for an operating system local_target does not
\* know, as the pieces format! puts together
UnsupportedMessage(system) ==
    <<"Platform ", Backtick, system, Backtick,
      " unsupported, please check the issue tracker.">>

\* the "Darwin" arm of local_target
DarwinTarget(p) ==
    LET cmake_defines ==
            IF p.architecture \in {"Unknown", "AARCH64"}
            THEN <<<<"CMAKE_OSX_ARCHITECTURES", <<"a", "r", "m", "6", "4">>>>>>
            ELSE <<>>
    IN  Ok(Target("Darwin", "arm64-apple-darwin", cmake_defines))

\* the "Linux" arm of local_target
LinuxTarget(p) ==
    CASE p.architecture = "AARCH64" ->
            Ok(Target("Linux", "aarch64-unknown-linux-gnu", <<>>))
      [] p.architecture = "X86_64" ->
            Ok(Target("Linux", "x86_64-unknown-linux-gnu", <<>>))
      [] OTHER -> Panic(<<"not supported">>)

\* local_target, on the platform facts p = [system, architecture]
local_target(p) ==
    CASE p.system = "Darwin" -> DarwinTarget(p)
      [] p.system = "Linux" -> LinuxTarget(p)
      [] OTHER -> Panic(UnsupportedMessage(p.system))

----------------------------------------------------------------------------
(* Revision::build_for (core.rs).                                          *)

\* the defines build_for hands to cmake::Config::define, in order
BuildForDefines(build_config, tgt) == as_cmake_define_key_values(build_config)

\* cmake::Config::build: the tool makes its directory under out_dir, runs,
\* and panics when the run fails
cmake_build(f, config, answer) ==
    [fs |-> [f EXCEPT !.dirs = @ \cup Ancestors(Join(config.out_dir, "build"))],
     panic |-> IF answer = "ok" THEN None ELSE Some(<<"cmake failed">>)]

build_for(rev, build_config, tgt, f, o) ==
    LET source == source_path(rev)
        build == build_path(rev)
        making == ~exists(f, build)
        mk == IF making THEN create_dir_all(f, build, o.mkdir)
              ELSE [fs |-> f, err |-> None]
        ev0 == IF making
               THEN <<[ev |-> "create_dir_all", path |-> build, ok |-> is_none(mk.err)]>>
               ELSE <<>>
        cmake_config ==
            [ev |-> "cmake", source |-> source, generator |-> "Unix Makefiles",
             out_dir |-> build, target |-> tgt.target_str, host |-> tgt.host,
             profile |-> "Debug", defines |-> BuildForDefines(build_config, tgt),
             very_verbose |-> build_config.verbose, ok |-> o.cmake = "ok"]
        run == cmake_build(mk.fs, cmake_config, o.cmake)
    IN  IF is_some(mk.err)
        THEN Outcome(mk.fs, Err(IoError(mk.err[1])), ev0)
        ELSE IF is_some(run.panic)
        THEN Outcome(run.fs, Panic(run.panic[1]), Append(ev0, cmake_config))
        ELSE Outcome(run.fs, Ok(Unit), Append(ev0, cmake_config))

----------------------------------------------------------------------------
(* build (lib.rs): the crate root's build, which acquires the source in    *)
(* ./tvm_source itself and panics where a step fails.                      *)

lib_TVM_REPO == "https://github.com/apache/incubator-tvm"
lib_DEFAULT_BRANCH == "main"
lib_path == <<"tvm_source">>
lib_target == "x86_64-apple-darwin19.5.0"

\* lib_Acquire going on after a clone that failed
lib_Acquire_IgnoringFailure(f, o, repository_url, branch, events) ==
    LET cl == clone(f, repository_url, branch, lib_path, o)
    IN  Outcome(cl.fs, Ok(Unit),
                Append(events, [ev |-> "clone", url |-> repository_url,
                                branch |-> branch, into |-> lib_path,
                                code |-> IF is_none(cl.err) THEN "Ok" ELSE cl.err[1].code,
                                ok |-> is_none(cl.err)]))

\* the clone of build and the loop over the submodules
lib_Acquire(f, o, repository_url, branch, events) ==
    LET cl == clone(f, repository_url, branch, lib_path, o)
        ev1 == Append(events, [ev |-> "clone", url |-> repository_url,
                               branch |-> branch, into |-> lib_path,
                               code |-> IF is_none(cl.err) THEN "Ok" ELSE cl.err[1].code,
                               ok |-> is_none(cl.err)])
    IN  IF is_some(cl.err)
        THEN Outcome(cl.fs, Panic(<<"failed to clone: ", cl.err[1]>>), ev1)
        ELSE LET ev2 == Append(ev1, [ev |-> "submodules", ok |-> o.list = "ok"])
             IN  IF o.list # "ok"
                 THEN Outcome(cl.fs, Panic(<<"unwrap: ", GitError("GenericError")>>), ev2)
                 ELSE LET up == UpdateSubmodules(cl.fs, lib_path, 1, o, ev2)
                      IN  IF is_some(up.err)
                          THEN Outcome(up.fs, Panic(<<"unwrap: ", up.err[1]>>), up.events)
                          ELSE Outcome(up.fs, Ok(Unit), up.events)

\* the cmake invocation of build
lib_Configure(f, o, events) ==
    LET cmake_config ==
            [ev |-> "cmake", source |-> lib_path, generator |-> "Ninja",
             out_dir |-> <<"tvm_source", "build">>, target |-> lib_target,
             host |-> "Darwin", profile |-> "Debug", defines |-> <<>>,
             very_verbose |-> TRUE, ok |-> o.cmake = "ok"]
        run == cmake_build(f, cmake_config, o.cmake)
    IN  IF is_some(run.panic)
        THEN Outcome(run.fs, Panic(run.panic[1]), Append(events, cmake_config))
        ELSE Outcome(run.fs, Ok(Unit), Append(events, cmake_config))

build(build_config, f, o) ==
    LET repository_url == unwrap_or(build_config.repository, lib_TVM_REPO)
        branch == unwrap_or(build_config.branch, lib_DEFAULT_BRANCH)
        rm == IF build_config.clean
              THEN remove_dir_all(f, lib_path, o.rm)
              ELSE [fs |-> f, err |-> None]
        ev0 == IF build_config.clean
               THEN <<[ev |-> "remove_dir_all", path |-> lib_path, ok |-> is_none(rm.err)]>>
               ELSE <<>>
        got == IF ~exists(rm.fs, lib_path)
               THEN lib_Acquire(rm.fs, o, repository_url, branch, ev0)
               ELSE Outcome(rm.fs, Ok(Unit), ev0)
    IN  IF is_some(rm.err)
        THEN Outcome(rm.fs, Panic(<<"unwrap: ", IoError(rm.err[1])>>), ev0)
        ELSE IF got.result.status # "Ok"
        THEN got
        ELSE lib_Configure(got.fs, o, got.events)

----------------------------------------------------------------------------
(* The callers' inputs.                                                    *)

ForkRepo == "https://github.com/octoml/tvm"
ReleaseBranch == "v0.8"
UserDir == <<"work", "tvm">>

Repositories == {None, Some(ForkRepo)}
Branches == {None, Some(ReleaseBranch)}
\* a directory of the user's, or the very directory the default branch lives in
RepositoryPaths == {None, Some(UserDir), Some(path(Revision_new(DEFAULT_BRANCH)))}

SampleSettings ==
    [UserSettings_default EXCEPT
        !["use_llvm"] = Some(CMakeSetting_Path(PathBuf(<<"/", "o", "p", "t">>))),
        !["use_cuda"] = Some(CMakeSetting_On),
        !["use_rpc"] = Some(Bool(FALSE))]

\* struct BuildConfig (core.rs)
BuildConfig(repository, repository_path, branch, verbose, clean, s) ==
    [repository |-> repository, repository_path |-> repository_path,
     output_path |-> None, branch |-> branch, verbose |-> verbose, clean |-> clean,
     settings |-> s]

\* the configurations get_revision is called with: it reads repository,
\* repository_path, branch and clean
AcquireConfigs(paths, branches) ==
    {BuildConfig(r, p, b, FALSE, c, UserSettings_default) :
        r \in Repositories, p \in paths, b \in branches, c \in BOOLEAN}

\* the configurations build_for is called with: it reads verbose and settings,
\* and the caller's branch names the revision
ConfigureConfigs(paths, branches, verboses, choices) ==
    {BuildConfig(None, p, b, v, FALSE, s) :
        p \in paths, b \in branches, v \in verboses, s \in choices}

\* struct BuildConfig (lib.rs)
lib_BuildConfigs ==
    [repository : Repositories, repository_path : {None},
     output_path : {None}, branch : Branches, clean : BOOLEAN]

Systems == {"Darwin", "Linux", "Windows", "FreeBSD", "OpenBSD", "NetBSD", "SunOS"}
Platforms == [system : Systems, architecture : Arch]

\* descriptors local_target returns: with a platform define, and without one
Targets == {local_target([system |-> "Darwin", architecture |-> "AARCH64"]).value,
            local_target([system |-> "Linux", architecture |-> "X86_64"]).value}

\* the filesystems a run may start from: a directory of the user's with files
\* in it; a checkout the user made in it; an earlier installation of the
\* default branch beside it
UserFiles == [dirs |-> Ancestors(Join(UserDir, "notes")), repos |-> <<>>]
InitialFilesystems ==
    {UserFiles,
     WithRepo(UserFiles, Join(UserDir, "source"), Checkout(ForkRepo, DEFAULT_BRANCH, 0)),
     create_dir_all(WithRepo(UserFiles, source_path(Revision_new(DEFAULT_BRANCH)),
                             Checkout(TVM_REPO, DEFAULT_BRANCH, 0)),
                    build_path(Revision_new(DEFAULT_BRANCH)), "ok").fs}

----------------------------------------------------------------------------
(* The environment's answers.                                              *)

RmAnswers(asked) == IF asked THEN {"ok", "err", "err_partial"} ELSE {"ok"}
CloneAnswers(asked) == IF asked THEN {"ok", "NotFound", "GenericError"} ELSE {"ok"}
\* a checkout declares no submodule, or as many as the bound allows
Declared(c) == IF c = "ok" THEN {0, MaxSubmodules} ELSE {0}
ListAnswers(c) == IF c = "ok" THEN {"ok", "err"} ELSE {"ok"}
FailAt(c, l, n) == IF c = "ok" /\ l = "ok" THEN 0..n ELSE {0}

Oracle(rm, c, n, l, k, mk, cm) ==
    [rm |-> rm, clone |-> c, declared |-> n, list |-> l, failAt |-> k,
     mkdir |-> mk, cmake |-> cm]

----------------------------------------------------------------------------
(* The state machine.                                                      *)

\* the record of a call: its arguments, whether the source directory it looks
\* for was there when it began, its result and its side effects in order
Call(op, cfg, rev, tgt, had_source, out) ==
    [op |-> op, cfg |-> cfg, revision |-> rev, target |-> tgt,
     had_source |-> had_source, result |-> out.result, events |-> out.events]

NoCall == [op |-> "none", cfg |-> None, revision |-> None, target |-> None,
           had_source |-> FALSE, result |-> Ok(Unit), events |-> <<>>]

OptionVars == <<settings, defines>>
ParseVars == <<input, parsed>>
TargetVars == <<platform, target>>
LifecycleVars == <<fs, last>>

InitOthers ==
    /\ settings = UserSettings_default
    /\ defines = None
    /\ input = None
    /\ parsed = None
    /\ platform = None
    /\ target = None

Init ==
    /\ fs \in InitialFilesystems
    /\ last = NoCall
    /\ InitOthers

\* a caller calls BuildConfig::get_revision with a configuration of cfgs
GetRevisionWith(cfgs) ==
    \E cfg \in cfgs :
      LET rev == Revision_new(unwrap_or(cfg.branch, DEFAULT_BRANCH))
          cleaning == ShouldClean(cfg, fs, RevisionPath(cfg, rev))
      IN  \E rm \in RmAnswers(cleaning) :
          \E c \in CloneAnswers(IF cleaning THEN rm = "ok" ELSE ShouldClone(fs, rev)) :
          \E n \in Declared(c), l \in ListAnswers(c) :
          \E k \in FailAt(c, l, n) :
            LET out == get_revision(cfg, fs, Oracle(rm, c, n, l, k, "ok", "ok"))
            IN  /\ fs' = out.fs
                /\ last' = Call("get_revision", cfg, None, None,
                                 exists(fs, source_path(rev)), out)
                /\ UNCHANGED <<OptionVars, ParseVars, TargetVars>>

\* a caller calls Revision::build_for on the revision its configuration names
BuildForWith(cfgs, tgts) ==
    \E cfg \in cfgs, tgt \in tgts :
      LET rev == Revision_new(unwrap_or(cfg.branch, DEFAULT_BRANCH))
      IN  \E mk \in (IF exists(fs, build_path(rev)) THEN {"ok"} ELSE {"ok", "err"}),
             cm \in {"ok", "fail"} :
            LET out == build_for(rev, cfg, tgt, fs, Oracle("ok", "ok", 0, "ok", 0, mk, cm))
            IN  /\ fs' = out.fs
                /\ last' = Call("build_for", cfg, Some(rev), Some(tgt),
                                 exists(fs, source_path(rev)), out)
                /\ UNCHANGED <<OptionVars, ParseVars, TargetVars>>

\* a caller calls build (lib.rs)
BuildCall ==
    \E cfg \in lib_BuildConfigs :
          \E rm \in RmAnswers(cfg.clean) :
          \E c \in CloneAnswers(IF cfg.clean THEN rm = "ok" /\ exists(fs, lib_path)
                                ELSE ~exists(fs, lib_path)) :
          \E n \in Declared(c), l \in ListAnswers(c) :
          \E k \in FailAt(c, l, n), cm \in {"ok", "fail"} :
            LET out == build(cfg, fs, Oracle(rm, c, n, l, k, "ok", cm))
            IN  /\ fs' = out.fs
                /\ last' = Call("build", cfg, None, None, exists(fs, lib_path), out)
                /\ UNCHANGED <<OptionVars, ParseVars, TargetVars>>

\* the texts the command line gives for a tri-state option
PathToX == <<"p", "a", "t", "h", "/", "t", "o", "/", "x">>
TriStateTexts == {<<"O", "N">>, <<"o", "f", "f">>, PathToX}

\* the values the argument parser can put in a field of the given type
Values(type) ==
    CASE type = "bool" -> {Bool(TRUE), Bool(FALSE)}
      [] type = "CMakeSetting" -> {CMakeSetting_from_str(t).value : t \in TriStateTexts}
      [] type = "String" -> {String(<<"o", "n">>)}
      [] type = "PathBuf" -> {PathBuf(<<"/", "o", "p", "t">>), PathBuf(<<"/", InvalidUnit>>)}

SetFields(s) == {f \in FieldNames : is_some(s[f])}

\* the argument parser fills one more field of UserSettings; the settings are
\* not touched once they have been projected
SetOption ==
    /\ is_none(defines)
    /\ Cardinality(SetFields(settings)) < MaxSet
    /\ \E f \in FieldNames \ SetFields(settings) :
       \E v \in Values(FieldType(f)) :
          settings' = [settings EXCEPT ![f] = Some(v)]
    /\ UNCHANGED <<defines, LifecycleVars, ParseVars, TargetVars>>

\* a caller calls BuildConfig::as_cmake_define_key_values
Project ==
    /\ is_none(defines)
    /\ defines' = Some(as_cmake_define_key_values(
                          BuildConfig(None, None, None, FALSE, FALSE, settings)))
    /\ UNCHANGED <<settings, LifecycleVars, ParseVars, TargetVars>>

\* the texts the parser is tried on: all up to MaxLen over the letters of the
\* keywords in both cases, a separator and one more letter
Alphabet == {"o", "O", "n", "N", "f", "F", "/", "x"}
RECURSIVE TextsOfLen(_)
TextsOfLen(n) ==
    IF n = 0 THEN {<<>>}
    ELSE {Append(t, c) : t \in TextsOfLen(n - 1), c \in Alphabet}
Texts == UNION {TextsOfLen(n) : n \in 0..MaxLen} \cup {PathToX}

\* the argument parser calls CMakeSetting::from_str on the text of an option
Parse ==
    /\ is_none(input)
    /\ \E t \in Texts :
          /\ input' = Some(t)
          /\ parsed' = Some(CMakeSetting_from_str(t))
    /\ UNCHANGED <<LifecycleVars, OptionVars, TargetVars>>

\* a caller calls local_target on the machine it runs on
LocalTargetCall ==
    /\ is_none(platform)
    /\ \E p \in Platforms :
          /\ platform' = Some(p)
          /\ target' = Some(local_target(p))
    /\ UNCHANGED <<LifecycleVars, OptionVars, ParseVars>>

\* The lifecycle of the default branch, with and without a directory of the
\* user's.
GetRevisionCall == GetRevisionWith(AcquireConfigs(RepositoryPaths, {None}))
BuildForCall ==
    BuildForWith(ConfigureConfigs({None, Some(UserDir)}, {None}, BOOLEAN,
                                  {UserSettings_default, SampleSettings}),
                 Targets)
Next == GetRevisionCall \/ BuildForCall
Spec == Init /\ [][Next]_vars

\* The lifecycle of two branches under the installation root.
InitRefs == fs = EmptyFs /\ last = NoCall /\ InitOthers
GetRevisionByRef == GetRevisionWith(AcquireConfigs({None}, Branches))
BuildForByRef ==
    BuildForWith(ConfigureConfigs({None}, Branches, {FALSE}, {SampleSettings}),
                 {local_target([system |-> "Linux", architecture |-> "X86_64"]).value})
NextRefs == GetRevisionByRef \/ BuildForByRef
SpecRefs == InitRefs /\ [][NextRefs]_vars

\* The build of lib.rs.
InitBuild == fs = EmptyFs /\ last = NoCall /\ InitOthers
NextBuild == BuildCall
SpecBuild == InitBuild /\ [][NextBuild]_vars

\* The option catalog.
NextOptions == SetOption \/ Project
SpecOptions == InitBuild /\ [][NextOptions]_vars

\* The tri-state parser.
NextParse == Parse
SpecParse == InitBuild /\ [][NextParse]_vars

\* The target resolver.
NextTarget == LocalTargetCall
SpecTarget == InitBuild /\ [][NextTarget]_vars

----------------------------------------------------------------------------
(* Reading the record of a call.                                           *)

EventsOf(call, kind) == {i \in DOMAIN call.events : call.events[i].ev = kind}
Attempted(call, kind) == EventsOf(call, kind) # {}
Succeeded(call, kind) == {i \in EventsOf(call, kind) : call.events[i].ok}

IsGetRevision(call) == call.op = "get_revision"
RevisionOf(cfg) == Revision_new(unwrap_or(cfg.branch, DEFAULT_BRANCH))
UrlOf(cfg) == unwrap_or(cfg.repository, TVM_REPO)

\* everything f holds at p and below is still in g, as it was
Kept(f, g, p) ==
    /\ \A q \in f.dirs : IsPrefix(p, q) => q \in g.dirs
    /\ \A q \in DOMAIN f.repos :
          IsPrefix(p, q) => q \in DOMAIN g.repos /\ g.repos[q] = f.repos[q]

----------------------------------------------------------------------------
(* C1.  Clean protection: a call of get_revision with repository_path set   *)
(* and clean = true deletes neither that directory nor anything under it,  *)
(* whatever the filesystem holds; and get_revision takes the recursive     *)
(* removal only when clean is true, repository_path is absent and the      *)
(* revision root exists.                                                   *)
C1_CleanProtection ==
    [][IsGetRevision(last') =>
         /\ (is_some(last'.cfg.repository_path) /\ last'.cfg.clean) =>
               /\ Kept(fs, fs', last'.cfg.repository_path[1])
               /\ ~Attempted(last', "remove_dir_all")
         /\ Attempted(last', "remove_dir_all") =>
               /\ last'.cfg.clean
               /\ is_none(last'.cfg.repository_path)
               /\ exists(fs, path(RevisionOf(last'.cfg)))
               /\ \A i \in EventsOf(last', "remove_dir_all") :
                     last'.events[i].path = path(RevisionOf(last'.cfg))]_vars

\* a clean call on the user's directory has returned and the user's files
\* are there
C1_Witness ==
    /\ IsGetRevision(last)
    /\ last.cfg.clean
    /\ last.cfg.repository_path = Some(UserDir)
    /\ last.result.status = "Ok"
    /\ exists(fs, Join(UserDir, "notes"))

----------------------------------------------------------------------------
(* C2.  Idempotence of get_revision.                                       *)

\* the step is a second call of get_revision, with the configuration of the
\* call before it, and that first call began without the source and succeeded
SecondCall ==
    /\ IsGetRevision(last) /\ IsGetRevision(last')
    /\ last'.cfg = last.cfg
    /\ ~last.had_source
    /\ last.result.status = "Ok"

Cleans(cfg) == cfg.clean /\ is_none(cfg.repository_path)

\* the clone is written where the source is looked for
ClonesInPlace(cfg) ==
    Join(RevisionPath(cfg, RevisionOf(cfg)), "source") = source_path(RevisionOf(cfg))

----------------------------------------------------------------------------
(* C3.  Not-found is distinguished: when the clone of ensure-source fails  *)
(* because the ref and repository are not found, the operation returns     *)
(* RevisionNotFound with the requested ref and the URL that was used;      *)
(* every other clone failure is returned unchanged as the version-control  *)
(* error; in both cases nothing more is returned and no submodule step     *)
(* runs.                                                                   *)
C3_NotFoundDistinguished ==
    \A i \in EventsOf(last, "clone") :
       ~last.events[i].ok =>
          /\ last.result.status = "Err"
          /\ last.events[i].code = "NotFound" =>
                last.result.error =
                    RevisionNotFound(last.events[i].branch, last.events[i].url)
          /\ last.events[i].code # "NotFound" =>
                last.result.error = Git2(GitError(last.events[i].code))
          /\ ~Attempted(last, "submodules")
          /\ ~Attempted(last, "update")

\* C3 for get_revision alone, which does distinguish: the ref and the URL in
\* the error are those of the configuration, the default URL when it names
\* none
C3_GetRevisionDistinguishes ==
    IsGetRevision(last) =>
       /\ C3_NotFoundDistinguished
       /\ \A i \in EventsOf(last, "clone") :
             /\ last.events[i].url = UrlOf(last.cfg)
             /\ last.events[i].branch = RevisionOf(last.cfg).revision

----------------------------------------------------------------------------
(* C4.  The projection is the catalog-ordered subsequence of the options   *)
(* set: one pair for each option set, none for an option not set, keys     *)
(* pairwise distinct, pairs in the declaration order of UserSettings       *)
(* whatever the order the options were given in.                           *)

KeyOf(f) == DefineEntries[CHOOSE i \in DOMAIN DefineEntries : DefineEntries[i].field = f].key
FieldOfKey(k) == DefineEntries[CHOOSE i \in DOMAIN DefineEntries : DefineEntries[i].key = k].field

C4_ProjectionInCatalogOrder ==
    is_some(defines) =>
       LET d == defines[1]
       IN  /\ \A f \in FieldNames :
                 Cardinality({k \in DOMAIN d : d[k][1] = KeyOf(f)})
                    = IF is_some(settings[f]) THEN 1 ELSE 0
           /\ Len(d) = Cardinality(SetFields(settings))
           /\ \A k, l \in DOMAIN d :
                 k < l => /\ d[k][1] # d[l][1]
                          /\ FieldIndex(FieldOfKey(d[k][1])) < FieldIndex(FieldOfKey(d[l][1]))

\* two options have been projected, the later-declared one given first or not
C4_Witness ==
    /\ is_some(defines)
    /\ Len(defines[1]) = 2
    /\ defines[1][1][1] = "USE_LLVM"
    /\ defines[1][2][1] = "BUILD_STATIC_RUNTIME"

----------------------------------------------------------------------------
(* C5.  String projection by kind: ON and OFF for a boolean; ON, OFF or    *)
(* the path's display string for a tri-state; the text unchanged for free  *)
(* text; the display string for a path.  A tri-state given path/to/x is    *)
(* emitted as path/to/x.                                                   *)

ExpectedValue(v) ==
    CASE v.type = "bool" -> IF v.value THEN <<"O", "N">> ELSE <<"O", "F", "F">>
      [] v.type = "CMakeSetting" /\ v.tag = "On" -> <<"O", "N">>
      [] v.type = "CMakeSetting" /\ v.tag = "Off" -> <<"O", "F", "F">>
      [] v.type = "CMakeSetting" /\ v.tag = "Path" -> display(v.path.os)
      [] v.type = "String" -> v.chars
      [] v.type = "PathBuf" -> display(v.os)

C5_ProjectionByKind ==
    is_some(defines) =>
       \A f \in SetFields(settings) :
          \E k \in DOMAIN defines[1] :
             /\ defines[1][k][1] = KeyOf(f)
             /\ defines[1][k][2] = ExpectedValue(settings[f][1])
             /\ settings[f][1] = CMakeSetting_Path(PathBuf(PathToX)) =>
                   defines[1][k][2] = PathToX

\* a tri-state given path/to/x and a boolean set to true have been projected
C5_Witness ==
    defines = Some(<<<<"USE_CUDA", PathToX>>, <<"USE_RPC", <<"O", "N">>>>>>)

----------------------------------------------------------------------------
(* C6.  The tri-state parser.                                              *)

OnSpellings == {<<a, b>> : a \in {"o", "O"}, b \in {"n", "N"}}
OffSpellings == {<<a, b, c>> : a \in {"o", "O"}, b \in {"f", "F"}, c \in {"f", "F"}}
KeywordLetters == {"o", "O", "n", "N", "f", "F"}

\* an unrecognized tri-state spelling: a word of the keywords' letters, or
\* nothing at all, that is neither keyword
Misspelt(t) ==
    /\ t \notin OnSpellings \cup OffSpellings
    /\ \A i \in DOMAIN t : t[i] \in KeywordLetters

\* the claim as made: an unrecognized spelling is rejected by from_str with
\* InvalidOptionValue
C6_MalformedRejected ==
    (is_some(input) /\ Misspelt(input[1])) =>
       /\ parsed[1].status = "Err"
       /\ parsed[1].error.variant = "InvalidOptionValue"

\* C6, amended.  CMakeSetting::from_str never fails: it yields On for "on"
\* and Off for "off" in any letter case and Path(text) for every other
\* text, an unrecognized spelling included; no InvalidOptionValue error
\* exists; and the projection of what it yields is defined, the text itself
\* for a path.
C6_ParseNeverFails ==
    is_some(input) =>
       LET t == input[1]
           r == parsed[1]
       IN  /\ r.status = "Ok"
           /\ t \in OnSpellings => r.value = CMakeSetting_On
           /\ t \in OffSpellings => r.value = CMakeSetting_Off
           /\ t \notin OnSpellings \cup OffSpellings =>
                 /\ r.value = CMakeSetting_Path(PathBuf(t))
                 /\ as_string_value(r.value) = t
           /\ as_string_value(r.value) \in {<<"O", "N">>, <<"O", "F", "F">>, t}

\* a misspelt keyword has been parsed, and taken for a path
C6_Witness ==
    /\ input = Some(<<"O", "f">>)
    /\ parsed = Some(Ok(CMakeSetting_Path(PathBuf(<<"O", "f">>))))

----------------------------------------------------------------------------
(* C7.  The external build invocation carries the platform defines: every  *)
(* pair of the target descriptor's cmake_defines is among the defines      *)
(* build_for hands to the build tool, with the descriptor's target triple  *)
(* and host and the projected user options.                                *)
C7_PlatformDefinesPassed ==
    last.op = "build_for" =>
       \A i \in EventsOf(last, "cmake") :
          LET e == last.events[i]
              t == last.target[1]
          IN  /\ e.target = t.target_str
              /\ e.host = t.host
              /\ \A f \in SetFields(last.cfg.settings) :
                    \E j \in DOMAIN e.defines : e.defines[j][1] = KeyOf(f)
              /\ \A k \in DOMAIN t.cmake_defines :
                    \E j \in DOMAIN e.defines : e.defines[j] = t.cmake_defines[k]

----------------------------------------------------------------------------
(* C8.  The side effects of build are ordered: the build tool is invoked   *)
(* only after every step of ensure-source has succeeded, with the source   *)
(* in place; when a step of ensure-source fails the target is not          *)
(* resolved, the build directory is not made, the build tool is not        *)
(* invoked and build does not return success.                              *)

AcquisitionSteps == {"remove_dir_all", "clone", "submodules", "update"}
Acquisition(call) == {i \in DOMAIN call.events : call.events[i].ev \in AcquisitionSteps}
AcquisitionFailed(call) == \E i \in Acquisition(call) : ~call.events[i].ok

C8_AcquisitionBeforeBuild ==
    [][last'.op = "build" =>
         /\ \A i \in EventsOf(last', "cmake") :
               /\ \A j \in Acquisition(last') : j < i /\ last'.events[j].ok
               /\ exists(fs', last'.events[i].source)
         /\ AcquisitionFailed(last') =>
               /\ ~Attempted(last', "cmake")
               /\ ~Attempted(last', "create_dir_all")
               /\ \A q \in fs'.dirs \ fs.dirs : ~IsPrefix(<<"tvm_source", "build">>, q)
               /\ last'.result.status # "Ok"]_vars

\* build has cloned, listed the submodules and then invoked the build tool
C8_Witness ==
    /\ last.op = "build"
    /\ Succeeded(last, "clone") = {1}
    /\ Succeeded(last, "submodules") = {2}
    /\ Attempted(last, "cmake")

----------------------------------------------------------------------------
(* C9.  Unsupported platform: on an operating system that is neither       *)
(* Darwin nor Linux local_target returns no descriptor; it panics, and the *)
(* message holds the name of the operating system.                         *)
C9_UnsupportedPlatformPanics ==
    (is_some(platform) /\ platform[1].system \notin {"Darwin", "Linux"}) =>
       /\ target[1].status = "Panic"
       /\ \E i \in DOMAIN target[1].message : target[1].message[i] = platform[1].system

\* local_target has been called on Windows and has panicked
C9_Witness ==
    /\ is_some(platform)
    /\ platform[1].system = "Windows"
    /\ target[1].status = "Panic"

----------------------------------------------------------------------------
(* C10.  The paths of a revision depend on the ref alone: the source is    *)
(* installation_root/ref/source and the build directory                    *)
(* installation_root/ref/build whatever the URL; so where a checkout of    *)
(* the ref from one URL is in place, get_revision for the same ref and     *)
(* another URL with clean = false clones nothing, updates no submodule,    *)
(* returns success and leaves the checkout as it is.                       *)

InstalledSource(ref) == <<"~", ".tvm_build", ref, "source">>
InstalledBuild(ref) == <<"~", ".tvm_build", ref, "build">>

C10_PathsByRefOnly ==
    [][last'.op \in {"get_revision", "build_for"} =>
         LET ref == unwrap_or(last'.cfg.branch, DEFAULT_BRANCH)
         IN  /\ \A i \in EventsOf(last', "clone") :
                   last'.events[i].into = InstalledSource(ref)
             /\ \A i \in EventsOf(last', "create_dir_all") :
                   last'.events[i].path = InstalledBuild(ref)
             /\ \A i \in EventsOf(last', "cmake") :
                   /\ last'.events[i].source = InstalledSource(ref)
                   /\ last'.events[i].out_dir = InstalledBuild(ref)
             /\ ( /\ IsGetRevision(last')
                  /\ ~last'.cfg.clean
                  /\ InstalledSource(ref) \in DOMAIN fs.repos
                  /\ fs.repos[InstalledSource(ref)].url # UrlOf(last'.cfg) )
                => /\ last'.events = <<>>
                   /\ last'.result = Ok(Revision_new(ref))
                   /\ fs' = fs]_vars

\* get_revision has succeeded without a clone on the checkout of another URL
C10_Witness ==
    /\ IsGetRevision(last)
    /\ ~last.cfg.clean
    /\ last.events = <<>>
    /\ last.result.status = "Ok"
    /\ InstalledSource(RevisionOf(last.cfg).revision) \in DOMAIN fs.repos
    /\ fs.repos[InstalledSource(RevisionOf(last.cfg).revision)].url # UrlOf(last.cfg)

----------------------------------------------------------------------------
(* C11.  Failures are returned to the caller: a step of get_revision,      *)
(* build_for or build that fails (the recursive removal, the clone, the    *)
(* listing or the update of the submodules, the making of the build        *)
(* directory, the run of the build tool) makes the operation return an     *)
(* error to its caller; a failed run of the build tool in particular       *)
(* comes back as the result of build_for.                                  *)
C11_FailuresReturned ==
    \A i \in DOMAIN last.events :
       ~last.events[i].ok => last.result.status = "Err"

\* C11 for get_revision alone, every step of which is followed by ?
C11_GetRevisionReturnsFailures ==
    IsGetRevision(last) => C11_FailuresReturned

----------------------------------------------------------------------------
(* C12.  The destructive reset precedes the clone: get_revision called     *)
(* with clean = true, repository_path absent and the revision root there   *)
(* removes the whole root, source and build, before it attempts a clone,   *)
(* and then always attempts one; when the removal fails its error is       *)
(* returned and no clone is attempted; after a call that succeeds the      *)
(* source is a fresh checkout and there is no build directory.  With the   *)
(* root absent, clean = true brings no error and deletes nothing.          *)

InstalledRoot(ref) == <<"~", ".tvm_build", ref>>

C12_ResetPrecedesClone ==
    [][(IsGetRevision(last') /\ last'.cfg.clean /\ is_none(last'.cfg.repository_path)) =>
         LET ref == RevisionOf(last'.cfg).revision
             root == InstalledRoot(ref)
             src == InstalledSource(ref)
             e == last'.events
         IN  /\ exists(fs, root) =>
                   /\ Len(e) >= 1
                   /\ e[1].ev = "remove_dir_all" /\ e[1].path = root
                   /\ EventsOf(last', "remove_dir_all") = {1}
                   /\ e[1].ok =>
                         /\ EventsOf(last', "clone") = {2}
                         /\ \A q \in fs'.dirs : IsPrefix(root, q) => q \in {root, src}
                         /\ \A q \in DOMAIN fs'.repos : IsPrefix(root, q) => q = src
                   /\ ~e[1].ok =>
                         /\ ~Attempted(last', "clone")
                         /\ last'.result.status = "Err"
                         /\ last'.result.error.variant = "IoError"
                   /\ last'.result.status = "Ok" =>
                         /\ Succeeded(last', "clone") = {2}
                         /\ src \in DOMAIN fs'.repos
                         /\ fs'.repos[src].url = UrlOf(last'.cfg)
                         /\ fs'.repos[src].branch = ref
                         /\ fs'.repos[src].updated = fs'.repos[src].declared
                         /\ ~exists(fs', InstalledBuild(ref))
             /\ ~exists(fs, root) =>
                   /\ ~Attempted(last', "remove_dir_all")
                   /\ last'.result.status = "Err" =>
                         \E i \in DOMAIN e : e[i].ev # "remove_dir_all" /\ ~e[i].ok
                   /\ fs.dirs \subseteq fs'.dirs
                   /\ \A q \in DOMAIN fs.repos :
                         q \in DOMAIN fs'.repos /\ fs'.repos[q] = fs.repos[q]]_vars

\* a call with clean = true has removed the root, cloned afresh from the
\* fork and succeeded, and there is no build directory
C12_Witness ==
    /\ IsGetRevision(last)
    /\ last.cfg.clean /\ is_none(last.cfg.repository_path)
    /\ last.had_source
    /\ last.result.status = "Ok"
    /\ Succeeded(last, "remove_dir_all") = {1}
    /\ Succeeded(last, "clone") = {2}
    /\ fs.repos[InstalledSource(DEFAULT_BRANCH)].url = ForkRepo
    /\ ~exists(fs, InstalledBuild(DEFAULT_BRANCH))

----------------------------------------------------------------------------
(* C13.  One source location for a call: for every configuration, those    *)
(* with repository_path set included, the directory whose existence        *)
(* decides whether get_revision clones, the directory the clone is written *)
(* to and the directory build_for gives the build tool as the source are   *)
(* one directory; so after a get_revision that succeeded the source        *)
(* directory of the build exists.                                          *)
C13_OneSourceLocation ==
    /\ IsGetRevision(last) =>
          /\ \A i \in EventsOf(last, "clone") :
                last.events[i].into = source_path(RevisionOf(last.cfg))
          /\ last.result.status = "Ok" =>
                exists(fs, source_path(last.result.value))
    /\ last.op = "build_for" =>
          \A i \in EventsOf(last, "cmake") :
             last.events[i].source = source_path(RevisionOf(last.cfg))

----------------------------------------------------------------------------
(* C14.  A source that is present has its submodules: over every sequence  *)
(* of get_revision calls, those that fail part-way included, whenever      *)
(* get_revision returns success for a revision every submodule its         *)
(* checkout declares has been updated; a failure of the listing or of an   *)
(* update is not covered up by a later call that finds the source there    *)
(* and succeeds.                                                           *)
C14_SubmodulesMaterialized ==
    (IsGetRevision(last) /\ last.result.status = "Ok") =>
       LET src == source_path(last.result.value)
       IN  /\ src \in DOMAIN fs.repos
           /\ fs.repos[src].updated = fs.repos[src].declared

----------------------------------------------------------------------------
(* C15.  The resolved target agrees with the machine: on Darwin and on     *)
(* Linux, whatever the CPU architecture, local_target returns a            *)
(* descriptor; the architecture component of its target triple names the   *)
(* architecture detected; and the define CMAKE_OSX_ARCHITECTURES = arm64   *)
(* is there only when the architecture detected is AArch64.                *)

\* the first component of the triples local_target writes
TripleArchitecture(target_str) ==
    CASE target_str = "arm64-apple-darwin" -> "arm64"
      [] target_str = "aarch64-unknown-linux-gnu" -> "aarch64"
      [] target_str = "x86_64-unknown-linux-gnu" -> "x86_64"

\* the names a triple gives to an architecture of heim::host::Arch
TripleNames(architecture) ==
    CASE architecture = "AARCH64" -> {"arm64", "aarch64"}
      [] architecture = "X86_64" -> {"x86_64"}
      [] OTHER -> {}

C15_TargetAgreesWithMachine ==
    (is_some(platform) /\ platform[1].system \in {"Darwin", "Linux"}) =>
       /\ target[1].status = "Ok"
       /\ target[1].status = "Ok" =>
             LET t == target[1].value
             IN  /\ TripleArchitecture(t.target_str) \in TripleNames(platform[1].architecture)
                 /\ (\E k \in DOMAIN t.cmake_defines :
                        t.cmake_defines[k] =
                           <<"CMAKE_OSX_ARCHITECTURES", <<"a", "r", "m", "6", "4">>>>)
                    => platform[1].architecture = "AARCH64"

====
